---- MODULE Spec2Model ----
(***************************************************************************)
(* thriftpool: the master's process manager (ProcessFactory,               *)
(* ProcessManager, Waiter), the Renewer, the Hub with its cooperative      *)
(* tasks, its Waiter and its watchers, and the request loop of a worker    *)
(* (socket_zmq), as a state machine.                                       *)
(*                                                                         *)
(* Two threads act on the state: the main thread (start(), stop(), the     *)
(* Waiter.wait() it blocks in) and the hub thread (supervisor events,      *)
(* handshake, broker callbacks, timers).  abort() comes from a third       *)
(* party (a signal handler or another thread).  Every statement of         *)
(* Waiter.wait/abort that another thread can observe is a step of its own. *)
(***************************************************************************)
EXTENDS Integers, Sequences, FiniteSets, TLC

(* ------------------------------ bounds -------------------------------- *)

\* app.config.WORKERS: the number of worker processes the job keeps alive.
WORKERS == 2

\* The supervisor hands out process ids 1, 2, ...; at most MaxPid spawns.
MaxPid == 4

\* Listeners 1..NumListeners; any of them may be marked started.
NumListeners == 2

\* A worker writes at most MaxHsMsgs frames on its handshake stream.
MaxHsMsgs == 2

\* How many times ProcessManager.abort() is called at most.
MaxAborts == 1

\* app.config.WORKER_TTL, in seconds.
WORKER_TTL == 3

\* The hub clock is followed up to MaxTime seconds.
MaxTime == 62

\* The clock is followed second by second during the first ClockWindow
\* seconds and from ClockWindow seconds before each deadline of the
\* Renewer's timer on; the idle stretch before that passes in one step.
ClockWindow == 3

\* Cooperative tasks (Greenlet objects) 1..NumTasks of the hub.
NumTasks == 2

\* The values 1..MaxValue a callback passes to Waiter.switch.
MaxValue == 1

\* How many times Hub.start() and Hub.stop() are called at most.
MaxStarts == 2
MaxStops == 2

\* How many times Greenlet.kill() is called on one task at most.
MaxKills == 1

\* How many times a loop callback calls Waiter.get() at most.
MaxHubGets == 1

\* BaseWatcher objects 1..NumWatchers; each is started at most MaxWStarts
\* times and its event source fires at most MaxWEvents times.
NumWatchers == 2
MaxWStarts == 2
MaxWEvents == 2

\* The clients send at most MaxRequests requests to the worker.
MaxRequests == 3

(* ------------------------- program constants -------------------------- *)

\* Renewer.resolution, in seconds
resolution == 1

\* Renewer.repeat_delay, in seconds
repeat_delay == 60

\* loop.now() counts milliseconds: "// 1000" in Renewer._loop_cb
MsPerSec == 1000

Pids == 1..MaxPid
Listeners == 1..NumListeners
WaiterNames == {"start", "stop"}
Tasks == 1..NumTasks
Values == 1..MaxValue
Watchers == 1..NumWatchers

\* hub._greenlet as a value of Waiter.greenlet (0 is None, a task its number)
HubGreenlet == NumTasks + 1

(* ------------------------------- state -------------------------------- *)

VARIABLES
    \* supervisor (gaffer manager), seen through its contract
    jobState,       \* "none" | "started" | "unloaded"
    nextPid,        \* the next process id the supervisor hands out
    proc,           \* pid -> "none" | "active" | "exited" | "reaped"
    sigterm,        \* pids a SIGTERM was delivered to
    stopRequested,  \* gaffer_manager.stop(callback=stop_cb) was called
    stopCbFired,    \* stop_cb ran
    \* ProcessFactory: handshake stream of each process
    hsWritten,      \* pid -> the master wrote the handshake frame
    hsSub,          \* pid -> handshake_done is subscribed to the stream
    hsSent,         \* pid -> frames the worker wrote on the stream
    hsRead,         \* pid -> frames of the stream the master consumed
    hsLimit,        \* frames a worker writes on its handshake stream at most
    \* Broker
    registered,     \* Broker.keys()
    regCount,       \* pid -> number of broker.register calls
    setupPc,        \* pid -> where the setup callback of the pid stands
    calls,          \* pid -> proxy calls the setup callback issued
    \* ProcessManager
    started,        \* listeners marked started
    bootstrapped,   \* the dict _bootstrapped: pid -> loop.now() at setup
    readyFired,     \* number of ready_cb calls
    exitRaised,     \* pids whose exit handling raised
    waiter,         \* waiter name -> [aborted, event]
    \* main thread
    mainPc, cur, waitRes, timedOut, outcome,
    \* abort()
    abortPc, abortCount,
    \* history of the signals of each waiter, for the statements about wait()
    sigDone,        \* waiter -> done() ran since the waiter's last reset
    sigAbort,       \* waiter -> abort() since then: "no" | "begun" | "done"
    snapDone,       \* sigDone of the waiter when wait() fixed its result
    snapAbort,      \* sigAbort of the waiter when wait() fixed its result
    abortWhileBlocked, \* abort() set the flag while wait() was blocked
    \* hub clock and Renewer
    now,            \* loop.now(), in milliseconds
    ttl,            \* app.config.WORKER_TTL: None or <<seconds>>
    timer,          \* Renewer._timer: [started, since, active, due, repeat]
    killLog,        \* the SIGTERMs the Renewer sent
    \* Hub
    loopState,      \* hub.loop: "new" | "running" | "exited" | "failed"
    loopRuns,       \* number of loop.start() calls
    _shutdown_complete, \* the Event: set or not
    async_stop_sent,    \* _async_stop.send() not yet serviced by the loop
    startPc,        \* Hub.start() of the hub thread: "idle" | "running" |
                    \* "returned" | "raised"
    startCalls,     \* number of Hub.start() calls
    stopPc,         \* Hub.stop() of the main thread: "idle" | "waiting"
    stopCalls,      \* number of Hub.stop() calls
    stopReturns,    \* number of Hub.stop() calls that returned
    task,           \* task -> [g, at, startw, watcher, ran, killSent, kills,
                    \*          killedAt, exit]
    hw,             \* a hub Waiter: [greenlet, value, exc], exc "_NONE"
                    \* (empty), "None" (a value is stored) or "exc"
    got,            \* get() calls that returned the stored value since the
                    \* last store
    hubGets,        \* number of Waiter.get() calls of loop callbacks
    cbResult,       \* outcome of the last of them
    bw,             \* watcher -> the BaseWatcher object: [callback, watcher,
                    \*   pending] and the history of its calls [starts,
                    \*   stops, events, ready, fired, errors]
    \* Worker (socket_zmq)
    wkPc,           \* Worker.run: "recv" | "process" | "closed"
    wkQueue,        \* requests that wait at the worker's REP socket
    wkCur,          \* the request in process: [n, kind]
    wkLog,          \* socket.recv() and socket.send() calls that returned
    wkReqs          \* number of requests the clients sent

procVars == <<jobState, nextPid, proc, sigterm, stopRequested, stopCbFired>>
hsVars == <<hsWritten, hsSub, hsSent, hsRead, hsLimit>>
brokerVars == <<registered, regCount, setupPc, calls>>
pmVars == <<started, bootstrapped, readyFired, exitRaised>>
mainVars == <<mainPc, cur, waitRes, timedOut, outcome>>
abortVars == <<abortPc, abortCount>>
histVars == <<sigDone, sigAbort, snapDone, snapAbort, abortWhileBlocked>>
renewVars == <<now, ttl, timer, killLog>>

lifeVars == <<loopState, loopRuns, _shutdown_complete, async_stop_sent,
              startPc, startCalls>>
stopVars == <<stopPc, stopCalls, stopReturns>>
taskVars == <<task, hw, got, hubGets, cbResult>>
watchVars == <<bw>>
hubVars == <<lifeVars, stopVars, taskVars, watchVars>>

poolVars == <<procVars, hsVars, brokerVars, pmVars, waiter, mainVars,
              abortVars, histVars, renewVars>>

workerVars == <<wkPc, wkQueue, wkCur, wkLog, wkReqs>>

vars == <<poolVars, hubVars, workerVars>>

(* ------------------------- supervisor contract ------------------------ *)

\* Processes of the job that the supervisor still counts: running, or ended
\* with the exit event not yet delivered (the respawn follows that event).
LiveCount == Cardinality({p \in Pids : proc[p] \in {"active", "exited"}})

\* process.active
Active(p) == proc[p] = "active"

(* ------------------------------- Broker ------------------------------- *)

\* Where a setup callback stands: "none", in a proxy call that waits for the
\* worker's reply ("title", "acceptors", "start" of listener l), "done" or
\* "failed".
At(pc, l) == [pc |-> pc, l |-> l]

\* A proxy call of a setup callback: the method and, for start_acceptor,
\* the listener (0 otherwise).
Call(op, l) == [op |-> op, l |-> l]

\* Proxy calls of a setup callback that wait for the worker's reply.
InFlight == {"title", "acceptors", "start"}

\* Broker.register(process, callback): a new entry, and the callback starts
\* as a task on the hub; it runs up to its first proxy call.
BrokerRegister(p) ==
    /\ registered' = registered \cup {p}
    /\ regCount' = [regCount EXCEPT ![p] = @ + 1]
    /\ setupPc' = [setupPc EXCEPT ![p] = At("title", 0)]
    /\ calls' = [calls EXCEPT ![p] = <<Call("change_title", 0)>>]

\* Broker.unregister(pid): the entry goes; a proxy call still in flight is
\* completed with WORKER_GONE, which ends the setup callback.
UnregisterPc(p) ==
    IF setupPc[p].pc \in InFlight THEN At("failed", 0) ELSE setupPc[p]

BrokerUnregister(p) ==
    /\ registered' = registered \ {p}
    /\ setupPc' = [setupPc EXCEPT ![p] = UnregisterPc(p)]
    /\ UNCHANGED <<regCount, calls>>

(* --------------------------- ProcessManager --------------------------- *)

\* is_ready(): len(self._bootstrapped) >= self.app.config.WORKERS
is_ready(b) == Cardinality(DOMAIN b) >= WORKERS

\* get_start_time(process_id)
get_start_time(b, p) == b[p]

\* teardown_cb: self._bootstrapped.pop(pid), which raises KeyError for a
\* pid that is not a key.
teardown_cb_keep(b, p) == b

teardown_cb(b, p) == [q \in (DOMAIN b) \ {p} |-> b[q]]

teardown_cb_raises(b, p) == p \notin DOMAIN b

\* Waiter.done(): self._event.set()
WaiterDone(w) ==
    /\ waiter' = [waiter EXCEPT ![w].event = TRUE]
    /\ sigDone' = [sigDone EXCEPT ![w] = TRUE]

\* ready_cb: self._start_waiter.done()
ready_cb ==
    /\ readyFired' = readyFired + 1
    /\ WaiterDone("start")

\* The listeners after l that are marked started, in iteration order.
NextStarted_None(l) == 0

NextStarted(l) ==
    LET later == {k \in started : k > l}
    IN  IF later = {} THEN 0 ELSE CHOOSE k \in later : \A j \in later : k <= j

\* setup_cb, from its last proxy call's reply on: record the worker and
\* notify when all workers are there.
SetupFinish(p) ==
    /\ bootstrapped' = (p :> now) @@ bootstrapped
    /\ setupPc' = [setupPc EXCEPT ![p] = At("done", 0)]
    /\ UNCHANGED calls
    /\ IF is_ready(bootstrapped')
       THEN ready_cb
       ELSE UNCHANGED <<readyFired, waiter, sigDone>>

\* setup_cb resumed by the reply to the proxy call in flight: change_title,
\* then register_acceptors, then start_acceptor for each started listener.
SetupCb(p) ==
    /\ setupPc[p].pc \in InFlight
    /\ p \in registered
    /\ IF setupPc[p].pc = "title"
       THEN /\ setupPc' = [setupPc EXCEPT ![p] = At("acceptors", 0)]
            /\ calls' = [calls EXCEPT ![p] =
                              Append(@, Call("register_acceptors", 0))]
            /\ UNCHANGED <<bootstrapped, readyFired, waiter, sigDone>>
       ELSE LET l == NextStarted(setupPc[p].l)
            IN  IF l # 0
                THEN /\ setupPc' = [setupPc EXCEPT ![p] = At("start", l)]
                     /\ calls' = [calls EXCEPT ![p] =
                                       Append(@, Call("start_acceptor", l))]
                     /\ UNCHANGED <<bootstrapped, readyFired, waiter, sigDone>>
                ELSE SetupFinish(p)
    /\ UNCHANGED <<procVars, hsVars, registered, regCount, started, exitRaised,
                   mainVars, abortVars, sigAbort, snapDone, snapAbort,
                   abortWhileBlocked, renewVars,
                   hubVars, workerVars>>

(* --------------------------- ProcessFactory --------------------------- *)

\* handshake_done: "if not process.active: return"
HandshakeRegisters_Always(p) == TRUE

HandshakeRegisters(p) == Active(p)

\* stream.unsubscribe(handshake_done)
Unsubscribe_Keep(sub, p) == sub

Unsubscribe(sub, p) == [sub EXCEPT ![p] = FALSE]

\* handshake_done(*args): unsubscribe, then register the process with the
\* broker unless it has exited.
handshake_done(p) ==
    /\ hsSub' = Unsubscribe(hsSub, p)
    /\ IF HandshakeRegisters(p)
       THEN BrokerRegister(p)
       ELSE UNCHANGED brokerVars

\* _do_handshake: write the application on the handshake stream and
\* subscribe handshake_done to the worker's answer.
_do_handshake(p) ==
    /\ hsWritten' = [hsWritten EXCEPT ![p] = TRUE]
    /\ hsSub' = [hsSub EXCEPT ![p] = TRUE]

\* The 'spawn' event: the supervisor starts process nextPid while fewer than
\* WORKERS processes of the started job are there, and _handle_spawn runs.
_handle_spawn(p) ==
    /\ jobState = "started"
    /\ p = nextPid
    /\ LiveCount < WORKERS
    /\ proc' = [proc EXCEPT ![p] = "active"]
    /\ nextPid' = nextPid + 1
    /\ _do_handshake(p)
    /\ UNCHANGED <<jobState, sigterm, stopRequested, stopCbFired, hsSent, hsRead, hsLimit,
                   brokerVars, pmVars, waiter, mainVars, abortVars, histVars,
                   renewVars,
                   hubVars, workerVars>>

\* The worker reads the handshake frame and writes a frame in answer.
WorkerAnswer(p) ==
    /\ Active(p)
    /\ hsWritten[p]
    /\ hsSent[p] < hsLimit
    /\ hsSent' = [hsSent EXCEPT ![p] = @ + 1]
    /\ UNCHANGED <<procVars, hsWritten, hsSub, hsRead, hsLimit, brokerVars, pmVars,
                   waiter, mainVars, abortVars, histVars, renewVars,
                   hubVars, workerVars>>

\* A frame of the handshake stream reaches the master: the stream calls its
\* subscribers, if any.
HandshakeMessage(p) ==
    /\ proc[p] \in {"active", "exited"}
    /\ hsRead[p] < hsSent[p]
    /\ hsRead' = [hsRead EXCEPT ![p] = @ + 1]
    /\ IF hsSub[p]
       THEN handshake_done(p)
       ELSE UNCHANGED <<hsSub, brokerVars>>
    /\ UNCHANGED <<procVars, hsWritten, hsSent, hsLimit, pmVars, waiter, mainVars,
                   abortVars, histVars, renewVars,
                   hubVars, workerVars>>

\* A worker process ends (a crash, or a signal it obeys): process.active
\* turns false and the supervisor queues the 'exit' event.
ProcessExit(p) ==
    /\ Active(p)
    /\ proc' = [proc EXCEPT ![p] = "exited"]
    /\ UNCHANGED <<jobState, nextPid, sigterm, stopRequested, stopCbFired, hsVars,
                   brokerVars, pmVars, waiter, mainVars, abortVars, histVars,
                   renewVars,
                   hubVars, workerVars>>

\* _handle_exit: broker.unregister(pid), then teardown_callback(pid).
_handle_exit(p) ==
    /\ proc[p] = "exited"
    /\ proc' = [proc EXCEPT ![p] = "reaped"]
    /\ BrokerUnregister(p)
    /\ bootstrapped' = teardown_cb(bootstrapped, p)
    /\ exitRaised' = IF teardown_cb_raises(bootstrapped, p)
                     THEN exitRaised \cup {p} ELSE exitRaised
    /\ UNCHANGED <<jobState, nextPid, sigterm, stopRequested, stopCbFired, hsVars,
                   started, readyFired, waiter, mainVars, abortVars, histVars,
                   renewVars,
                   hubVars, workerVars>>

(* ------------------------- main thread: start -------------------------- *)

\* ProcessManager.start() is called: setup() is posted to the hub thread
\* and the caller blocks until it has run.
StartCall ==
    /\ mainPc = "init"
    /\ mainPc' = "start_setup"
    /\ UNCHANGED <<procVars, hsVars, brokerVars, pmVars, waiter, cur, waitRes,
                   timedOut, outcome, abortVars, histVars, renewVars,
                   hubVars, workerVars>>

\* Entering Waiter.wait() of waiter w: the caller blocks in event.wait.
EnterWait(w) ==
    /\ mainPc' = "blocked"
    /\ cur' = w
    /\ waitRes' = "none"
    /\ timedOut' = FALSE
    /\ snapDone' = FALSE
    /\ snapAbort' = "no"
    /\ abortWhileBlocked' = FALSE

\* ProcessManager.setup on the hub thread: start the supervisor, load the job
\* and start it; start() goes on to _start_waiter.wait_or_terminate.
Setup ==
    /\ mainPc = "start_setup"
    /\ jobState' = "started"
    /\ EnterWait("start")
    /\ UNCHANGED <<nextPid, proc, sigterm, stopRequested, stopCbFired, hsVars,
                   brokerVars, pmVars, waiter, outcome, abortVars, sigDone,
                   sigAbort, renewVars,
                   hubVars, workerVars>>

(* ----------------------------- Waiter.wait ----------------------------- *)

\* event.wait(self.timeout) returns because the event is set.
WaitWake ==
    /\ mainPc = "blocked"
    /\ waiter[cur].event
    /\ mainPc' = "chk_abort"
    /\ UNCHANGED <<procVars, hsVars, brokerVars, pmVars, waiter, cur, waitRes,
                   timedOut, outcome, abortVars, histVars, renewVars,
                   hubVars, workerVars>>

\* event.wait(self.timeout) returns because the timeout expired.
WaitTimeout ==
    /\ mainPc = "blocked"
    /\ ~waiter[cur].event
    /\ mainPc' = "chk_abort"
    /\ timedOut' = TRUE
    /\ UNCHANGED <<procVars, hsVars, brokerVars, pmVars, waiter, cur, waitRes,
                   outcome, abortVars, histVars, renewVars,
                   hubVars, workerVars>>

\* "if self._aborted"
WaitAborted_Never(w) == FALSE

WaitAborted(w) == waiter[w].aborted

\* "if self._aborted: raise Aborted": the exception is on its way through
\* the finally clause.
WaitCheckAbort ==
    /\ mainPc = "chk_abort"
    /\ IF WaitAborted(cur)
       THEN /\ waitRes' = "Aborted"
            /\ mainPc' = "reset_flag"
            /\ snapDone' = sigDone[cur]
            /\ snapAbort' = sigAbort[cur]
       ELSE /\ mainPc' = "is_set"
            /\ UNCHANGED <<waitRes, snapDone, snapAbort>>
    /\ UNCHANGED <<procVars, hsVars, brokerVars, pmVars, waiter, cur, timedOut,
                   outcome, abortVars, sigDone, sigAbort, abortWhileBlocked,
                   renewVars,
                   hubVars, workerVars>>

\* "return event.is_set()": the value is fixed here; finally runs next.
WaitIsSet ==
    /\ mainPc = "is_set"
    /\ waitRes' = IF waiter[cur].event THEN "true" ELSE "false"
    /\ mainPc' = "reset_flag"
    /\ snapDone' = sigDone[cur]
    /\ snapAbort' = sigAbort[cur]
    /\ UNCHANGED <<procVars, hsVars, brokerVars, pmVars, waiter, cur, timedOut,
                   outcome, abortVars, sigDone, sigAbort, abortWhileBlocked,
                   renewVars,
                   hubVars, workerVars>>

\* reset(), first statement: self._aborted = False
WaitResetFlag ==
    /\ mainPc = "reset_flag"
    /\ waiter' = [waiter EXCEPT ![cur].aborted = FALSE]
    /\ mainPc' = "reset_event"
    /\ UNCHANGED <<procVars, hsVars, brokerVars, pmVars, cur, waitRes, timedOut,
                   outcome, abortVars, histVars, renewVars,
                   hubVars, workerVars>>

\* wait_or_terminate: SystemTerminate unless wait() returned true.
wait_or_terminate(r) == IF r = "true" THEN "ok" ELSE "SystemTerminate"

\* reset(), second statement: self._event.clear(); wait() is over and
\* wait_or_terminate turns its result into the outcome of start() or stop().
WaitResetEvent ==
    /\ mainPc = "reset_event"
    /\ waiter' = [waiter EXCEPT ![cur].event = FALSE]
    /\ outcome' = [outcome EXCEPT ![cur] = wait_or_terminate(waitRes)]
    /\ mainPc' = IF cur = "start" THEN "after_start" ELSE "after_stop"
    /\ sigDone' = [sigDone EXCEPT ![cur] = FALSE]
    /\ sigAbort' = [sigAbort EXCEPT ![cur] = "no"]
    /\ UNCHANGED <<procVars, hsVars, brokerVars, pmVars, cur, waitRes, timedOut,
                   abortVars, snapDone, snapAbort, abortWhileBlocked, renewVars,
                   hubVars, workerVars>>

(* -------------------------- main thread: stop -------------------------- *)

\* ProcessManager.stop() is called: teardown() is posted to the hub thread.
StopCall ==
    /\ mainPc = "after_start"
    /\ mainPc' = "stop_teardown"
    /\ UNCHANGED <<procVars, hsVars, brokerVars, pmVars, waiter, cur, waitRes,
                   timedOut, outcome, abortVars, histVars, renewVars,
                   hubVars, workerVars>>

\* ProcessFactory.teardown: manager.unload(job): the job is stopped, every
\* running process of it gets SIGTERM and none is started any more.
FactoryTeardown_Skip == UNCHANGED <<jobState, sigterm>>

FactoryTeardown ==
    /\ jobState' = "unloaded"
    /\ sigterm' = sigterm \cup {p \in Pids : Active(p)}

\* ProcessManager.teardown on the hub thread: factory.teardown(), then
\* gaffer_manager.stop(callback=self.stop_cb); stop() goes on to
\* _stop_waiter.wait_or_terminate.
Teardown ==
    /\ mainPc = "stop_teardown"
    /\ FactoryTeardown
    /\ stopRequested' = TRUE
    /\ EnterWait("stop")
    /\ UNCHANGED <<nextPid, proc, stopCbFired, hsVars, brokerVars, pmVars, waiter,
                   outcome, abortVars, sigDone, sigAbort, renewVars,
                   hubVars, workerVars>>

\* The supervisor has stopped and calls stop_cb: self._stop_waiter.done()
stop_cb ==
    /\ stopRequested
    /\ ~stopCbFired
    /\ stopCbFired' = TRUE
    /\ WaiterDone("stop")
    /\ UNCHANGED <<jobState, nextPid, proc, sigterm, stopRequested, hsVars,
                   brokerVars, pmVars, mainVars, abortVars, sigAbort, snapDone,
                   snapAbort, abortWhileBlocked, renewVars,
                   hubVars, workerVars>>

(* ------------------------ ProcessManager.abort ------------------------- *)

\* Waiter.abort(), first statement: self._aborted = True
AbortFlag(w) ==
    /\ waiter' = [waiter EXCEPT ![w].aborted = TRUE]
    /\ abortWhileBlocked' =
         IF mainPc = "blocked" /\ cur = w THEN TRUE ELSE abortWhileBlocked
    /\ sigAbort' = [sigAbort EXCEPT ![w] = "begun"]
    /\ UNCHANGED <<sigDone, snapDone, snapAbort>>

\* Waiter.abort(), second statement: self._event.set()
AbortEvent(w) ==
    /\ waiter' = [waiter EXCEPT ![w].event = TRUE]
    /\ sigAbort' = [sigAbort EXCEPT ![w] = "done"]
    /\ UNCHANGED <<sigDone, snapDone, snapAbort, abortWhileBlocked>>

\* abort(): self._start_waiter.abort(); self._stop_waiter.abort(), one
\* statement at a time.
Abort ==
    /\ \/ /\ abortPc = 0
          /\ abortCount < MaxAborts
          /\ abortCount' = abortCount + 1
          /\ AbortFlag("start")
       \/ /\ abortPc = 1
          /\ AbortEvent("start")
          /\ UNCHANGED abortCount
       \/ /\ abortPc = 2
          /\ AbortFlag("stop")
          /\ UNCHANGED abortCount
       \/ /\ abortPc = 3
          /\ AbortEvent("stop")
          /\ UNCHANGED abortCount
    /\ abortPc' = (abortPc + 1) % 4
    /\ UNCHANGED <<procVars, hsVars, brokerVars, pmVars, mainVars, renewVars,
                   hubVars, workerVars>>

(* ------------------------------- Renewer ------------------------------- *)

\* app.config.WORKER_TTL is None, or <<seconds>>.
None == <<>>

\* sorted(processes): the bootstrapped pids in ascending order.
RECURSIVE SortedPids(_)
SortedPids(S) ==
    IF S = {} THEN <<>>
    ELSE LET m == CHOOSE x \in S : \A y \in S : x <= y
         IN  <<m>> \o SortedPids(S \ {m})

\* lifetime = (now - processes.get_start_time(process_id)) // 1000
Lifetime(b, p, t) == (t - get_start_time(b, p)) \div MsPerSec

\* "if ttl < lifetime"; None orders below every number.
TooOld(b, p, t) == IF ttl = None THEN TRUE ELSE ttl[1] < Lifetime(b, p, t)

\* The loop of _loop_cb: the first pid of sorted(processes) that is too old
\* (the loop breaks there), 0 if there is none.
RECURSIVE FirstTooOld(_, _, _)
FirstTooOld(seq, b, t) ==
    IF seq = <<>> THEN 0
    ELSE IF TooOld(b, Head(seq), t) THEN Head(seq)
    ELSE FirstTooOld(Tail(seq), b, t)

RenewTarget_Last(b, t) ==
    LET old == {p \in DOMAIN b : TooOld(b, p, t)}
    IN  IF old = {} THEN 0 ELSE CHOOSE p \in old : \A q \in old : q <= p

RenewTarget(b, t) == FirstTooOld(SortedPids(DOMAIN b), b, t)

\* self._timer.start(self._loop_cb, self.repeat_delay, self.resolution) at
\* time t: the first firing is repeat_delay seconds away.
TimerArmed(t) ==
    [started |-> TRUE, since |-> t, active |-> TRUE,
     due |-> t + repeat_delay * MsPerSec, repeat |-> resolution]

TimerAfterStart_Always(tm, t) == TimerArmed(t)

\* The timer after Renewer.start at time t: "if WORKER_TTL is None: return",
\* else the timer is armed.
TimerAfterStart(tm, t) ==
    IF ttl = None
    THEN [tm EXCEPT !.started = TRUE, !.since = t]
    ELSE TimerArmed(t)

\* Renewer.start on the hub thread, called once the components it requires
\* ('loop', 'processes') have started.
RenewerStart ==
    /\ mainPc = "after_start"
    /\ outcome["start"] = "ok"
    /\ ~timer.started
    /\ timer' = TimerAfterStart(timer, now)
    /\ UNCHANGED <<procVars, hsVars, brokerVars, pmVars, waiter, mainVars,
                   abortVars, histVars, now, ttl, killLog,
                   hubVars, workerVars>>

\* The timer's deadline after it fired at t: the loop re-arms a repeating
\* timer with the repeat value it had BEFORE the callback runs; "repeat"
\* assigned in the callback is used from the following firing on (pyuv
\* Timer.repeat: "the old repeat value will have been used to schedule the
\* next timeout").
Rearm(t, oldRepeat, newRepeat) == t + oldRepeat * MsPerSec

\* _loop_cb: the timer fires.  Not ready: nothing.  Ready: the repeat value
\* is the resolution; the first worker of sorted(processes) that is too old
\* gets SIGTERM (ProcessNotFound is swallowed) and the repeat value becomes
\* repeat_delay.
_loop_cb ==
    /\ timer.active
    /\ now = timer.due
    /\ LET ready == is_ready(bootstrapped)
           target == IF ready THEN RenewTarget(bootstrapped, now) ELSE 0
           newRepeat == IF ~ready THEN timer.repeat
                        ELSE IF target = 0 THEN resolution
                        ELSE repeat_delay
       IN  /\ timer' = [timer EXCEPT !.due = Rearm(now, timer.repeat, newRepeat),
                                     !.repeat = newRepeat]
           /\ IF target # 0
              THEN /\ sigterm' = IF Active(target)
                                 THEN sigterm \cup {target} ELSE sigterm
                   /\ killLog' = Append(killLog,
                         [time |-> now, pid |-> target,
                          delivered |-> Active(target),
                          ready |-> ready,
                          boot |-> bootstrapped])
              ELSE UNCHANGED <<sigterm, killLog>>
    /\ UNCHANGED <<jobState, nextPid, proc, stopRequested, stopCbFired, hsVars,
                   brokerVars, pmVars, waiter, mainVars, abortVars, histVars,
                   now, ttl,
                   hubVars, workerVars>>

\* Time passes on the hub clock, never beyond a deadline of the timer; with
\* no timer armed, the stretch after the first ClockWindow seconds passes in
\* one step.
AdvanceClock ==
    /\ now + MsPerSec <= MaxTime * MsPerSec
    /\ IF timer.active
       THEN /\ now < timer.due
            /\ now' = IF timer.due - now > ClockWindow * MsPerSec
                      THEN timer.due - ClockWindow * MsPerSec
                      ELSE now + MsPerSec
       ELSE now' = IF now < ClockWindow * MsPerSec
                   THEN now + MsPerSec
                   ELSE MaxTime * MsPerSec
    /\ UNCHANGED <<procVars, hsVars, brokerVars, pmVars, waiter, mainVars,
                   abortVars, histVars, ttl, timer, killLog,
                   hubVars, workerVars>>

(* --------------------------------- Hub --------------------------------- *)

\* Hub.wait: "finally: watcher.stop()" on a watcher in state w.
WaitFinally_Skip(w) == w

WaitFinally(w) == "stopped"

\* Waiter.get: "finally: self.greenlet = None".
GetFinally_Keep(h) == h

GetFinally(h) == [h EXCEPT !.greenlet = 0]

\* Hub.stop: self._shutdown_complete.wait() returns once the event e is set.
StopMayReturn_Unset(e) == TRUE

StopMayReturn_Once(e) == e /\ stopReturns = 0

StopMayReturn(e) == e

\* greenlet.throw(GreenletExit) into a greenlet that has not started: it
\* dies at once, its run function is never called.
ThrowUnstarted_Ignored(tk) == [tk EXCEPT !.killedAt = "unstarted"]

ThrowUnstarted(tk) ==
    [tk EXCEPT !.g = "dead", !.exit = "GreenletExit", !.killedAt = "unstarted"]

\* A task leaves its closure (return or exception): the frames unwind, the
\* "finally" of Hub.wait stops the watcher, Greenlet.run ends, the greenlet
\* is dead.
Finish(tk, how) ==
    [tk EXCEPT !.g = "dead", !.at = "none", !.exit = how,
               !.watcher = IF tk.at = "wait" THEN WaitFinally(tk.watcher)
                           ELSE tk.watcher]

\* Waiter.get() called by greenlet g on the waiter h: a stored value is
\* returned and a stored exception raised, the waiter left as it is;
\* an empty waiter that another greenlet waits on fails the assert; else
\* the greenlet is registered and Hub.switch() is called, which raises
\* RuntimeError in the hub's own greenlet and suspends any other.
WaiterGet(h, g) ==
    IF h.exc # "_NONE"
    THEN [out |-> IF h.exc = "None" THEN "value" ELSE "exc", hw |-> h]
    ELSE IF h.greenlet # 0
    THEN [out |-> "AssertionError", hw |-> h]
    ELSE IF g = HubGreenlet
    THEN [out |-> "RuntimeError",
          hw |-> GetFinally([h EXCEPT !.greenlet = g])]
    ELSE [out |-> "suspend", hw |-> [h EXCEPT !.greenlet = g]]

\* HubThread.body: Hub.start() switches into hub._greenlet, which enters
\* Hub.run() and loop.start(); the call returns when that greenlet ends.
HubStart ==
    /\ startPc = "idle"
    /\ startPc' = "running"
    /\ startCalls' = startCalls + 1
    /\ loopState' = "running"
    /\ loopRuns' = loopRuns + 1
    /\ UNCHANGED <<_shutdown_complete, async_stop_sent, stopVars, taskVars,
                   poolVars, watchVars, workerVars>>

\* Hub.start() called again by the same thread after the first call ended:
\* hub._greenlet is dead, the switch into it returns at once.
HubStartAgain ==
    /\ startPc \in {"returned", "raised"}
    /\ startCalls < MaxStarts
    /\ startCalls' = startCalls + 1
    /\ UNCHANGED <<loopState, loopRuns, _shutdown_complete, async_stop_sent,
                   startPc, stopVars, taskVars, poolVars, watchVars, workerVars>>

\* Hub._shutdown, the callback of _async_stop: loop.stop(EVBREAK_ALL);
\* loop.start() returns.
_shutdown ==
    /\ loopState = "running"
    /\ async_stop_sent
    /\ async_stop_sent' = FALSE
    /\ loopState' = "exited"
    /\ UNCHANGED <<loopRuns, _shutdown_complete, startPc, startCalls,
                   stopVars, taskVars, poolVars, watchVars, workerVars>>

\* Hub.run after loop.start() returned: self._shutdown_complete.set(); the
\* hub greenlet ends and Hub.start() returns in the hub thread.
HubRunReturns ==
    /\ loopState = "exited"
    /\ startPc = "running"
    /\ _shutdown_complete' = TRUE
    /\ startPc' = "returned"
    /\ UNCHANGED <<loopState, loopRuns, async_stop_sent, startCalls,
                   stopVars, taskVars, poolVars, watchVars, workerVars>>

\* Hub.stop(), first statement: self._async_stop.send(); the caller then
\* blocks in self._shutdown_complete.wait().
HubStop ==
    /\ stopPc = "idle"
    /\ stopCalls < MaxStops
    /\ stopCalls' = stopCalls + 1
    /\ async_stop_sent' = TRUE
    /\ stopPc' = "waiting"
    /\ UNCHANGED <<loopState, loopRuns, _shutdown_complete, startPc,
                   startCalls, stopReturns, taskVars, poolVars, watchVars, workerVars>>

\* Hub.stop() returns: self._shutdown_complete.wait() is over.
HubStopReturns ==
    /\ stopPc = "waiting"
    /\ StopMayReturn(_shutdown_complete)
    /\ stopPc' = "idle"
    /\ stopReturns' = stopReturns + 1
    /\ UNCHANGED <<lifeVars, stopCalls, taskVars, poolVars, watchVars, workerVars>>

\* Greenlet.start(): the first call creates the start watcher, starts it
\* with self.switch and sends it.
TaskStart(t) ==
    /\ task[t].startw = "none"
    /\ task' = [task EXCEPT ![t].startw = "sent"]
    /\ UNCHANGED <<lifeVars, stopVars, hw, got, hubGets, cbResult, poolVars, watchVars, workerVars>>

\* The loop runs the start watcher's callback, Greenlet.switch.  A greenlet
\* that has not started enters Greenlet.run: the start watcher is stopped
\* and the closure runs up to its first suspension or its end; op is what
\* the closure does: "return", "raise", "wait" (hub.wait(watcher)) or "get"
\* (get() on the hub Waiter hw).  An exception that leaves the closure leaves
\* Greenlet.run (try/finally, no except) and the greenlet, and is raised in
\* the parent, the hub greenlet, inside the watcher callback; the loop was
\* created with debug=True, so it stops and loop.start() raises: Hub.run
\* and Hub.start end with the exception, _shutdown_complete is not set.
\* A dead greenlet (killed before its first run): the switch returns at once.
RunTask(t, op) ==
    /\ loopState = "running"
    /\ task[t].startw = "sent"
    /\ IF task[t].g # "unstarted"
       THEN /\ task' = [task EXCEPT ![t].startw = "idle"]
            /\ UNCHANGED <<loopState, startPc, hw, got>>
       ELSE LET tk == [task[t] EXCEPT !.startw = "stopped", !.ran = TRUE]
                r == WaiterGet(hw, t)
                out == IF op = "get" THEN r.out ELSE op
            IN  /\ task' = [task EXCEPT ![t] =
                     CASE out \in {"return", "value"} -> Finish(tk, "returned")
                       [] out \in {"raise", "exc", "AssertionError"} ->
                              Finish(tk, "raised")
                       [] out = "wait" ->
                              [tk EXCEPT !.g = "suspended", !.at = "wait",
                                         !.watcher = "armed"]
                       [] out = "suspend" ->
                              [tk EXCEPT !.g = "suspended", !.at = "get"]]
                /\ hw' = IF op = "get" THEN r.hw ELSE hw
                /\ got' = IF out = "value" THEN got + 1 ELSE got
                /\ IF out \in {"raise", "exc", "AssertionError"}
                   THEN loopState' = "failed" /\ startPc' = "raised"
                   ELSE UNCHANGED <<loopState, startPc>>
    /\ UNCHANGED <<loopRuns, _shutdown_complete, async_stop_sent, startCalls,
                   stopVars, hubGets, cbResult, poolVars, watchVars, workerVars>>

\* The watcher a task waits on in Hub.wait fires: its callback
\* waiter.switch(unique) resumes the task, waiter.get() returns unique, the
\* "finally" stops the watcher, and the closure ends.
WatcherFires(t) ==
    /\ loopState = "running"
    /\ task[t].at = "wait"
    /\ task[t].watcher = "armed"
    /\ task' = [task EXCEPT ![t] = Finish(task[t], "returned")]
    /\ UNCHANGED <<lifeVars, stopVars, hw, got, hubGets, cbResult, poolVars, watchVars, workerVars>>

\* Greenlet.kill(): "if not self.dead:" hub.callback(lambda: self.throw(
\* exception)) posts the throw to the loop; nothing for a dead task.
Kill(t) ==
    /\ task[t].kills < MaxKills
    /\ task' = [task EXCEPT ![t].kills = @ + 1,
                            ![t].killSent = IF task[t].g = "dead"
                                            THEN @ ELSE @ + 1]
    /\ UNCHANGED <<lifeVars, stopVars, hw, got, hubGets, cbResult, poolVars, watchVars, workerVars>>

\* The loop runs a posted kill: self._greenlet.throw(GreenletExit).  A
\* suspended task gets the exception at its suspension point: the frames of
\* Waiter.get and Hub.wait unwind and the greenlet ends (GreenletExit is
\* not passed to the parent).  An unstarted greenlet dies without running.
\* A dead greenlet: nothing happens.
KillCb(t) ==
    /\ loopState = "running"
    /\ task[t].killSent > 0
    /\ LET tk == [task[t] EXCEPT !.killSent = @ - 1]
       IN  /\ task' = [task EXCEPT ![t] =
                CASE tk.g = "unstarted" -> ThrowUnstarted(tk)
                  [] tk.g = "suspended" ->
                         Finish([tk EXCEPT !.killedAt = tk.at], "GreenletExit")
                  [] tk.g = "dead" -> tk]
           /\ hw' = IF tk.g = "suspended" /\ tk.at = "get"
                    THEN GetFinally(hw) ELSE hw
    /\ UNCHANGED <<lifeVars, stopVars, got, hubGets, cbResult, poolVars, watchVars, workerVars>>

\* Waiter.switch(v), called by a callback of the loop: with no greenlet
\* registered the value is stored; else the registered task is resumed,
\* its waiter.get() returns v ("finally: self.greenlet = None") and its
\* closure ends.
CbSwitch(v) ==
    /\ loopState = "running"
    /\ IF hw.greenlet = 0
       THEN /\ hw' = [hw EXCEPT !.value = v, !.exc = "None"]
            /\ got' = 0
            /\ UNCHANGED task
       ELSE /\ hw' = GetFinally(hw)
            /\ task' = [task EXCEPT ![hw.greenlet] =
                           Finish(task[hw.greenlet], "returned")]
            /\ UNCHANGED got
    /\ UNCHANGED <<lifeVars, stopVars, hubGets, cbResult, poolVars, watchVars, workerVars>>

\* Waiter.throw(exc), called by a callback of the loop: with no greenlet
\* registered the exception is stored; else it is thrown into the registered
\* task, leaves its closure and, as in RunTask, stops the loop.
CbThrow ==
    /\ loopState = "running"
    /\ IF hw.greenlet = 0
       THEN /\ hw' = [hw EXCEPT !.exc = "exc"]
            /\ got' = 0
            /\ UNCHANGED <<task, loopState, startPc>>
       ELSE /\ hw' = GetFinally(hw)
            /\ task' = [task EXCEPT ![hw.greenlet] =
                           Finish(task[hw.greenlet], "raised")]
            /\ loopState' = "failed"
            /\ startPc' = "raised"
            /\ UNCHANGED got
    /\ UNCHANGED <<loopRuns, _shutdown_complete, async_stop_sent, startCalls,
                   stopVars, hubGets, cbResult, poolVars, watchVars, workerVars>>

\* Waiter.get() called by a callback of the loop, that is in the hub's own
\* greenlet; the callback handles what get() raises.
CbGet ==
    /\ loopState = "running"
    /\ hubGets < MaxHubGets
    /\ hubGets' = hubGets + 1
    /\ LET r == WaiterGet(hw, HubGreenlet)
       IN  /\ cbResult' = r.out
           /\ hw' = r.hw
           /\ got' = IF r.out = "value" THEN got + 1 ELSE got
    /\ UNCHANGED <<lifeVars, stopVars, task, poolVars, watchVars, workerVars>>

(* ----------------------------- BaseWatcher ---------------------------- *)

\* BaseWatcher.stop(): self.watcher.stop(), which stops the loop's watcher
\* and clears its pending event; then self.callback = self.watcher = None.
BaseWatcherStop_Keep(b) == [b EXCEPT !.stops = @ + 1]

BaseWatcherStop(b) ==
    [b EXCEPT !.watcher = "None", !.callback = 0, !.pending = FALSE,
              !.stops = @ + 1]

\* BaseWatcher.start(callback): self.callback = partial(callback, ...), then
\* self.watcher.start(), which raises AttributeError once stop() has set
\* self.watcher to None.
WatcherStart(w) ==
    /\ bw[w].starts < MaxWStarts
    /\ bw' = [bw EXCEPT ![w] =
                 IF bw[w].watcher = "None"
                 THEN [@ EXCEPT !.starts = @ + 1, !.callback = 1,
                                !.errors = @ + 1]
                 ELSE [@ EXCEPT !.starts = @ + 1, !.callback = 1,
                                !.watcher = "active"]]
    /\ UNCHANGED <<poolVars, lifeVars, stopVars, taskVars, workerVars>>

\* The event source of a started watcher fires (AsyncWatcher.send(), or the
\* file descriptor of an IOWatcher becomes ready): the loop marks the
\* watcher pending; events that come while it is pending merge.
WatcherSend(w) ==
    /\ bw[w].watcher = "active"
    /\ ~bw[w].pending
    /\ bw[w].events < MaxWEvents
    /\ bw' = [bw EXCEPT ![w].pending = TRUE, ![w].events = @ + 1]
    /\ UNCHANGED <<poolVars, lifeVars, stopVars, taskVars, workerVars>>

\* The running loop invokes a pending watcher: on_ready calls
\* self.callback(), the callable that start() stored (None is not
\* callable: TypeError).
on_ready(w) ==
    /\ loopState = "running"
    /\ bw[w].pending
    /\ bw' = [bw EXCEPT ![w] =
                 IF bw[w].callback = 0
                 THEN [@ EXCEPT !.pending = FALSE, !.ready = @ + 1,
                                !.errors = @ + 1]
                 ELSE [@ EXCEPT !.pending = FALSE, !.ready = @ + 1,
                                !.fired = @ + 1]]
    /\ UNCHANGED <<poolVars, lifeVars, stopVars, taskVars, workerVars>>

\* BaseWatcher.stop(), called on the loop thread.  It is called once: a
\* second call raises AttributeError at self.watcher.stop() and changes
\* nothing.
WatcherStop(w) ==
    /\ bw[w].stops = 0
    /\ bw' = [bw EXCEPT ![w] = BaseWatcherStop(@)]
    /\ UNCHANGED <<poolVars, lifeVars, stopVars, taskVars, workerVars>>

(* ------------------------- Worker (socket_zmq) ------------------------- *)

\* What self.processor.process(iprot, oprot) does with a request: it returns
\* ("ok"), raises an exception derived from Exception ("Exception"), or
\* raises one that is not (SystemExit, KeyboardInterrupt, GeneratorExit:
\* "exit").
Outcomes == {"ok", "Exception", "exit"}

\* "except Exception, exc": the outcomes the clause handles.
Caught(k) == k = "Exception"

\* The reply: socket.send(otransport.getvalue()) in the else clause,
\* socket.send('') in the except clause.
ReplyFor_Output(k) == "output"

ReplyFor(k) == IF k = "ok" THEN "output" ELSE "empty"

\* A client's request, on which the processor will do k, reaches the
\* worker's socket and waits there.
ClientRequest(k) ==
    /\ wkReqs < MaxRequests
    /\ wkReqs' = wkReqs + 1
    /\ wkQueue' = Append(wkQueue, k)
    /\ UNCHANGED <<wkPc, wkCur, wkLog, poolVars, hubVars>>

\* Worker.process, first statement: socket.recv() returns the next request.
process_recv ==
    /\ wkPc = "recv"
    /\ wkQueue # <<>>
    /\ wkPc' = "process"
    /\ wkCur' = [n |-> wkCur.n + 1, kind |-> Head(wkQueue)]
    /\ wkQueue' = Tail(wkQueue)
    /\ wkLog' = Append(wkLog, [ev |-> "recv", req |-> wkCur.n + 1,
                               body |-> Head(wkQueue)])
    /\ UNCHANGED <<wkReqs, poolVars, hubVars>>

\* Worker.process, the try statement: the processor runs; its output or,
\* after an exception the except clause handles, the empty string is sent
\* and Worker.run calls process again.  Any other exception leaves process
\* and the loop of run, whose finally clause closes the socket.
process_reply ==
    /\ wkPc = "process"
    /\ IF wkCur.kind = "ok" \/ Caught(wkCur.kind)
       THEN /\ wkLog' = Append(wkLog, [ev |-> "send", req |-> wkCur.n,
                                       body |-> ReplyFor(wkCur.kind)])
            /\ wkPc' = "recv"
       ELSE /\ wkPc' = "closed"
            /\ UNCHANGED wkLog
    /\ UNCHANGED <<wkQueue, wkCur, wkReqs, poolVars, hubVars>>

(* --------------------------- specifications ---------------------------- *)

\* Hub.__init__ and Greenlet.__init__: the loop is created, the stop
\* watcher started, the hub thread launched; no task has been started.
HubInit ==
    /\ loopState = "new"
    /\ loopRuns = 0
    /\ _shutdown_complete = FALSE
    /\ async_stop_sent = FALSE
    /\ startPc = "idle"
    /\ startCalls = 0
    /\ stopPc = "idle"
    /\ stopCalls = 0
    /\ stopReturns = 0
    /\ task = [t \in Tasks |->
                  [g |-> "unstarted", at |-> "none", startw |-> "none",
                   watcher |-> "none", ran |-> FALSE, killSent |-> 0,
                   kills |-> 0, killedAt |-> "none", exit |-> "none"]]
    /\ hw = [greenlet |-> 0, value |-> 0, exc |-> "_NONE"]
    /\ got = 0
    /\ hubGets = 0
    /\ cbResult = "none"
    /\ bw = [w \in Watchers |->
                [callback |-> 0, watcher |-> "inactive", pending |-> FALSE,
                 starts |-> 0, stops |-> 0, events |-> 0, ready |-> 0,
                 fired |-> 0, errors |-> 0]]

\* Worker.run after create_socket(): the REP socket is connected and the
\* loop is about to call process(socket).
WorkerInit ==
    /\ wkPc = "recv"
    /\ wkQueue = <<>>
    /\ wkCur = [n |-> 0, kind |-> "none"]
    /\ wkLog = <<>>
    /\ wkReqs = 0

\* The state after construction, with app.config.WORKER_TTL = t, the
\* listeners s marked started and workers that write h handshake frames.
InitPool(t, s, h) ==
    /\ jobState = "none"
    /\ nextPid = 1
    /\ proc = [p \in Pids |-> "none"]
    /\ sigterm = {}
    /\ stopRequested = FALSE
    /\ stopCbFired = FALSE
    /\ hsWritten = [p \in Pids |-> FALSE]
    /\ hsSub = [p \in Pids |-> FALSE]
    /\ hsSent = [p \in Pids |-> 0]
    /\ hsRead = [p \in Pids |-> 0]
    /\ hsLimit = h
    /\ registered = {}
    /\ regCount = [p \in Pids |-> 0]
    /\ setupPc = [p \in Pids |-> At("none", 0)]
    /\ calls = [p \in Pids |-> <<>>]
    /\ started = s
    /\ bootstrapped = <<>>
    /\ readyFired = 0
    /\ exitRaised = {}
    /\ waiter = [w \in WaiterNames |-> [aborted |-> FALSE, event |-> FALSE]]
    /\ mainPc = "init"
    /\ cur = "start"
    /\ waitRes = "none"
    /\ timedOut = FALSE
    /\ outcome = [w \in WaiterNames |-> "none"]
    /\ abortPc = 0
    /\ abortCount = 0
    /\ sigDone = [w \in WaiterNames |-> FALSE]
    /\ sigAbort = [w \in WaiterNames |-> "no"]
    /\ snapDone = FALSE
    /\ snapAbort = "no"
    /\ abortWhileBlocked = FALSE
    /\ now = 0
    /\ ttl = t
    /\ timer = [started |-> FALSE, since |-> 0, active |-> FALSE, due |-> 0,
                repeat |-> 0]
    /\ killLog = <<>>
    /\ HubInit
    /\ WorkerInit

\* Listener 1 is marked started and a worker answers the handshake with one
\* frame.
InitTTL(t) == InitPool(t, {1}, 1)

Init == InitTTL(<<WORKER_TTL>>)

\* WORKER_TTL is configured, or left unset.
InitAnyTTL == \E t \in {None, <<WORKER_TTL>>} : InitTTL(t)

\* A worker process obeys the SIGTERM it was sent and ends.
SignalledExit(p) ==
    /\ p \in sigterm
    /\ ProcessExit(p)

\* The hub thread's events that bring the pool up.
PoolRun ==
    \/ \E p \in Pids : _handle_spawn(p)
    \/ \E p \in Pids : WorkerAnswer(p)
    \/ \E p \in Pids : HandshakeMessage(p)
    \/ \E p \in Pids : SetupCb(p)

\* Waiter.wait() of the main thread.
WaitNext ==
    \/ WaitWake
    \/ WaitTimeout
    \/ WaitCheckAbort
    \/ WaitIsSet
    \/ WaitResetFlag
    \/ WaitResetEvent

\* The pool on the hub thread once start() has posted setup(): spawns,
\* handshakes, setup callbacks, and workers that end at any moment.
Next ==
    \/ StartCall
    \/ Setup
    \/ PoolRun
    \/ \E p \in Pids : ProcessExit(p)
    \/ \E p \in Pids : _handle_exit(p)

Spec == Init /\ [][Next]_vars

\* Any set of listeners marked started, with workers that answer the
\* handshake with one frame; or listener 1 marked started, with workers that
\* write up to MaxHsMsgs frames on the handshake stream.
InitSetup ==
    \/ \E s \in SUBSET Listeners : InitPool(<<WORKER_TTL>>, s, 1)
    \/ \E h \in 1..MaxHsMsgs : InitPool(<<WORKER_TTL>>, {1}, h)

\* Handshakes and setup callbacks of workers that may end at any moment.
NextSetup ==
    \/ StartCall
    \/ Setup
    \/ PoolRun
    \/ \E p \in Pids : ProcessExit(p)

SpecSetup == InitSetup /\ [][NextSetup]_vars

\* The main thread in start() and stop() against the hub thread's done()
\* and a concurrent abort().
NextWait ==
    \/ StartCall
    \/ Setup
    \/ PoolRun
    \/ WaitNext
    \/ StopCall
    \/ Teardown
    \/ stop_cb
    \/ Abort

SpecWait == Init /\ [][NextWait]_vars

\* start(), then stop(): the workers end when they are told to.
NextStop ==
    \/ StartCall
    \/ Setup
    \/ PoolRun
    \/ WaitNext
    \/ StopCall
    \/ Teardown
    \/ stop_cb
    \/ \E p \in Pids : SignalledExit(p)
    \/ \E p \in Pids : _handle_exit(p)

SpecStop == Init /\ [][NextStop]_vars

\* The Renewer over the running pool: start(), then the timer and the
\* clock; the workers end when the Renewer tells them to.
NextRenew ==
    \/ StartCall
    \/ Setup
    \/ PoolRun
    \/ WaitNext
    \/ RenewerStart
    \/ _loop_cb
    \/ AdvanceClock
    \/ \E p \in Pids : SignalledExit(p)
    \/ \E p \in Pids : _handle_exit(p)

SpecRenew == Init /\ [][NextRenew]_vars

\* The same with WORKER_TTL configured or unset.
SpecRenewAny == InitAnyTTL /\ [][NextRenew]_vars

\* A worker process ends on its own (a crash) after start() has returned
\* and before the Renewer's timer is armed.
EarlyExit(p) ==
    /\ mainPc = "after_start"
    /\ ~timer.active
    /\ ProcessExit(p)

\* The Renewer over a pool some of whose workers crashed and were replaced
\* before the timer was armed; later the workers end when the Renewer tells
\* them to.
NextRenewCrash ==
    \/ StartCall
    \/ Setup
    \/ PoolRun
    \/ WaitNext
    \/ RenewerStart
    \/ _loop_cb
    \/ AdvanceClock
    \/ \E p \in Pids : EarlyExit(p)
    \/ \E p \in Pids : SignalledExit(p)
    \/ \E p \in Pids : _handle_exit(p)

SpecRenewCrash == Init /\ [][NextRenewCrash]_vars

\* The hub's loop from start to stop, with tasks that return, raise or wait.
NextHubLife ==
    \/ HubStart
    \/ HubStartAgain
    \/ _shutdown
    \/ HubRunReturns
    \/ HubStop
    \/ HubStopReturns
    \/ \E t \in Tasks : TaskStart(t)
    \/ \E t \in Tasks : \E op \in {"return", "raise", "wait"} : RunTask(t, op)
    \/ \E t \in Tasks : WatcherFires(t)

SpecHubLife == Init /\ [][NextHubLife]_vars

\* Tasks of the running hub that wait on watchers and are killed.
NextHubTask ==
    \/ HubStart
    \/ \E t \in Tasks : TaskStart(t)
    \/ \E t \in Tasks : \E op \in {"return", "wait"} : RunTask(t, op)
    \/ \E t \in Tasks : WatcherFires(t)
    \/ \E t \in Tasks : Kill(t)
    \/ \E t \in Tasks : KillCb(t)

SpecHubTask == Init /\ [][NextHubTask]_vars

\* A worker that serves the requests of its clients.
NextWorker ==
    \/ \E k \in Outcomes : ClientRequest(k)
    \/ process_recv
    \/ process_reply

SpecWorker == Init /\ [][NextWorker]_vars

\* Watchers of the hub's loop that are started, fire and are stopped.
NextWatcher ==
    \/ HubStart
    \/ \E w \in Watchers : WatcherStart(w)
    \/ \E w \in Watchers : WatcherSend(w)
    \/ \E w \in Watchers : on_ready(w)
    \/ \E w \in Watchers : WatcherStop(w)

SpecWatcher == Init /\ [][NextWatcher]_vars

\* A hub Waiter shared by tasks and loop callbacks.
NextHubWaiter ==
    \/ HubStart
    \/ \E t \in Tasks : TaskStart(t)
    \/ \E t \in Tasks : \E op \in {"return", "get"} : RunTask(t, op)
    \/ \E v \in Values : CbSwitch(v)
    \/ CbThrow
    \/ CbGet

SpecHubWaiter == Init /\ [][NextHubWaiter]_vars

(* ------------------------- the process pool --------------------------- *)

\* C1: over any sequence of spawn, handshake, setup and exit events the
\* start waiter is fired (ready_cb) exactly once, the first time the number
\* of bootstrapped workers reaches WORKERS, and never again.
C1_ReadyFiredOnce ==
    /\ readyFired <= 1
    /\ is_ready(bootstrapped) => readyFired = 1

\* C2: the handling of every exit event completes without raising, whether
\* or not the worker had been bootstrapped, and leaves the pid out of the
\* bootstrapped map.
C2_ExitHandledCleanly ==
    \A p \in Pids :
        proc[p] = "reaped" =>
            /\ p \notin exitRaised
            /\ p \notin registered
            /\ p \notin DOMAIN bootstrapped

\* C3: a worker is registered with the broker only by a step that consumes
\* a frame of its handshake stream, after the master wrote the handshake
\* frame, and only while the process is active; a worker whose answer has
\* not been received is not registered.
C3_RegisteredAfterHandshake ==
    /\ [](\A p \in registered : hsWritten[p] /\ hsRead[p] >= 1)
    /\ [][\A p \in Pids :
            (p \in registered' /\ p \notin registered) =>
                /\ hsWritten[p]
                /\ hsRead'[p] = hsRead[p] + 1
                /\ Active(p)]_vars

C3_Witness ==
    \E p \in Pids : p \in registered /\ Active(p) /\ hsRead[p] = 1

\* C4: whenever exactly WORKERS pids are bootstrapped, Broker.keys() is
\* exactly the set of bootstrapped pids.
C4_KeysAreBootstrapped ==
    Cardinality(DOMAIN bootstrapped) = WORKERS =>
        registered = DOMAIN bootstrapped

C4_Witness ==
    /\ Cardinality(DOMAIN bootstrapped) = WORKERS
    /\ \E p \in Pids : proc[p] = "reaped"
    /\ \E p \in DOMAIN bootstrapped : proc[p] = "exited"

\* C23: under any interleaving of spawn, handshake answer, setup callback
\* and exit events, every pid in _bootstrapped is the pid of a process that
\* has spawned and whose exit event has not been handled yet; once the exit
\* event of a pid has been handled, the pid is not in the map and no later
\* step puts it there.
C23_StaleFree ==
    /\ [](\A p \in DOMAIN bootstrapped : proc[p] \in {"active", "exited"})
    /\ [][\A p \in Pids :
            proc[p] = "reaped" =>
                p \notin DOMAIN bootstrapped /\ p \notin DOMAIN bootstrapped']_vars

C23_Witness ==
    /\ \E p \in Pids : proc[p] = "reaped" /\ setupPc[p].pc = "done"
    /\ \E p \in Pids : proc[p] = "reaped" /\ setupPc[p].pc = "failed"
    /\ \E p \in DOMAIN bootstrapped : proc[p] = "exited"

\* setup_cb's proxy calls for the started listeners s, in order.
SetupCalls(s) ==
    <<Call("change_title", 0), Call("register_acceptors", 0)>>
        \o [i \in 1..Cardinality(s) |->
                Call("start_acceptor", SortedPids(s)[i])]

\* C25: a worker is in the bootstrapped map only after its setup callback
\* has issued change_title, then register_acceptors, then start_acceptor
\* for every listener marked started, in this order and nothing else; and
\* start_acceptor is issued for no listener that is not marked started.
C25_BootstrappedAfterSetup ==
    /\ \A p \in DOMAIN bootstrapped : calls[p] = SetupCalls(started)
    /\ \A p \in Pids : \A i \in 1..Len(calls[p]) :
           calls[p][i].op = "start_acceptor" => calls[p][i].l \in started

C25_Witness ==
    /\ started = Listeners
    /\ \E p \in DOMAIN bootstrapped : Len(calls[p]) = 2 + NumListeners
    /\ \E q \in Pids : q \notin DOMAIN bootstrapped /\ setupPc[q].pc = "start"

\* C26: a process is registered with the broker at most once; the first
\* frame of the handshake stream that reaches the master unsubscribes
\* handshake_done, and a later frame changes nothing at the broker (no
\* register, no setup callback started again).
C26_RegisteredOnce ==
    /\ [](\A p \in Pids : regCount[p] <= 1 /\ (hsRead[p] >= 1 => ~hsSub[p]))
    /\ [][\A p \in Pids :
            (hsRead[p] >= 1 /\ hsRead'[p] > hsRead[p]) =>
                UNCHANGED brokerVars]_vars

C26_Witness ==
    \E p \in DOMAIN bootstrapped :
        /\ hsRead[p] = MaxHsMsgs
        /\ regCount[p] = 1
        /\ setupPc[p].pc = "done"

(* ----------------------------- the waiters ---------------------------- *)

\* C5: wait() has exactly three outcomes under any interleaving with done()
\* and abort(): it raises Aborted if abort() was signalled, returns true if
\* done() was signalled and abort() was not, and returns false if neither
\* was signalled.
C5_WaitOutcomes ==
    waitRes # "none" =>
        /\ snapAbort = "done" => waitRes = "Aborted"
        /\ (snapDone /\ snapAbort = "no") => waitRes = "true"
        /\ (~snapDone /\ snapAbort = "no") => waitRes = "false"

\* C6: start() returns normally only if WORKERS workers became
\* bootstrapped; if the timeout expires first or the waiter is aborted,
\* start() raises SystemTerminate.
C6_StartOutcome ==
    mainPc = "after_start" =>
        /\ outcome["start"] = "ok" => readyFired >= 1
        /\ snapAbort = "done" => outcome["start"] = "SystemTerminate"
        /\ (timedOut /\ ~snapDone) => outcome["start"] = "SystemTerminate"

\* C7: if abort() sets the flag of the waiter the main thread is blocked
\* on, the wait in progress raises Aborted and start() or stop() raises
\* SystemTerminate; and once that abort() has set the event, the blocked
\* wait can return at once, without its timeout.
C7_AbortEndsWait ==
    /\ (abortWhileBlocked /\ waitRes # "none") => waitRes = "Aborted"
    /\ (abortWhileBlocked /\ mainPc \in {"after_start", "after_stop"}) =>
           outcome[cur] = "SystemTerminate"
    /\ (mainPc = "blocked" /\ sigAbort[cur] = "done") => ENABLED WaitWake

C7_Witness ==
    /\ cur = "stop"
    /\ mainPc = "after_stop"
    /\ abortWhileBlocked
    /\ ~timedOut
    /\ outcome["stop"] = "SystemTerminate"

\* C8 (as claimed): when teardown() has returned, every worker process of
\* the job has exited.
C8_TeardownAllExited ==
    stopRequested => \A p \in Pids : ~Active(p)

\* C8 (amended): when teardown() has returned, the job is unloaded: every
\* worker still running has been sent SIGTERM, no worker is spawned any
\* more, and the supervisor's stop has been requested; the workers end
\* later, so some may still be running.
C8_TeardownUnloads ==
    /\ [](mainPc \in {"blocked", "chk_abort", "is_set", "reset_flag",
                      "reset_event", "after_stop"} /\ cur = "stop" =>
              /\ jobState = "unloaded"
              /\ stopRequested
              /\ \A p \in Pids : Active(p) => p \in sigterm)
    /\ [][stopRequested => nextPid' = nextPid]_vars

C8_Witness ==
    /\ mainPc = "blocked"
    /\ cur = "stop"
    /\ \E p \in Pids : Active(p) /\ p \in DOMAIN bootstrapped

\* abort() of waiter w has run its first statement and not yet its second.
AbortMidway(w) ==
    \/ w = "start" /\ abortPc = 1
    \/ w = "stop" /\ abortPc = 3

\* C27: every call of Waiter.wait() leaves the waiter reset, whatever its
\* outcome: at the step wait() returns, with no abort() of that waiter
\* half-way through, the abort flag is false and the event is cleared.
C27_WaitLeavesReset ==
    [][(mainPc = "reset_event" /\ mainPc' # "reset_event"
            /\ ~AbortMidway(cur)) =>
          waiter'[cur] = [aborted |-> FALSE, event |-> FALSE]]_vars

(* ----------------------------- the Renewer ---------------------------- *)

\* C9: between any two SIGTERMs the Renewer sends, at least repeat_delay
\* seconds elapse.
C9_RecycleRateLimit ==
    \A i, j \in 1..Len(killLog) :
        (i < j /\ killLog[i].delivered /\ killLog[j].delivered) =>
            killLog[j].time - killLog[i].time >= repeat_delay * MsPerSec

\* The age of worker q, in whole seconds, exceeded WORKER_TTL at SIGTERM e.
ExceedsTTL(e, q) == (e.time - e.boot[q]) \div MsPerSec > ttl[1]

\* C10 (as claimed): the target of every SIGTERM of the Renewer is the
\* bootstrapped worker with the earliest start time, and is older than
\* WORKER_TTL.
C10_TargetIsOldest ==
    \A i \in 1..Len(killLog) :
        LET e == killLog[i]
        IN  /\ e.pid \in DOMAIN e.boot
            /\ \A q \in DOMAIN e.boot : e.boot[e.pid] <= e.boot[q]
            /\ ExceedsTTL(e, e.pid)

\* C10 (amended): the target of every SIGTERM of the Renewer is the
\* bootstrapped worker with the smallest pid among those older than
\* WORKER_TTL (in whole seconds); it need not have the earliest start time.
C10_TargetIsFirstTooOld ==
    \A i \in 1..Len(killLog) :
        LET e == killLog[i]
        IN  /\ e.pid \in DOMAIN e.boot
            /\ ExceedsTTL(e, e.pid)
            /\ \A q \in DOMAIN e.boot : q < e.pid => ~ExceedsTTL(e, q)

C10_Witness ==
    \E i \in 1..Len(killLog) :
        LET e == killLog[i]
        IN  \E q \in DOMAIN e.boot :
                /\ q > e.pid
                /\ e.boot[q] < e.boot[e.pid]
                /\ ExceedsTTL(e, q)

\* The number of SIGTERMs the Renewer sent to worker p.
KillsOf(p) == Cardinality({i \in 1..Len(killLog) : killLog[i].pid = p})

\* C11: take the worker the Renewer recycles first (the smallest pid, no
\* later start time than any other worker, no SIGTERM sent to another
\* worker yet; with WORKERS = 1, the worker).  Once WORKER_TTL + 1 seconds
\* have passed since it was bootstrapped and since the Renewer was started,
\* and the timer's callback of that instant has run, the Renewer has sent
\* SIGTERM to it exactly once.
C11_RecycledAfterTTL ==
    \A p \in DOMAIN bootstrapped :
        ( /\ timer.active
          /\ ~(now = timer.due)
          /\ \A q \in DOMAIN bootstrapped :
                 q >= p /\ bootstrapped[q] >= bootstrapped[p]
          /\ \A i \in 1..Len(killLog) : killLog[i].pid = p
          /\ now >= bootstrapped[p] + (WORKER_TTL + 1) * MsPerSec
          /\ now >= timer.since + (WORKER_TTL + 1) * MsPerSec )
        => KillsOf(p) = 1

\* C12: with WORKER_TTL unset, Renewer.start() arms no timer and the
\* Renewer never sends SIGTERM to any worker, whatever the workers' ages.
C12_UnsetTTLDoesNothing ==
    ttl = None =>
        /\ ~timer.active
        /\ killLog = <<>>
        /\ sigterm = {}

C12_Witness ==
    /\ ttl = None
    /\ timer.started
    /\ is_ready(bootstrapped)
    /\ \E p \in DOMAIN bootstrapped :
           Lifetime(bootstrapped, p, now) >= repeat_delay

\* C24: every SIGTERM of the Renewer is sent on a tick at which at least
\* WORKERS workers are bootstrapped; and no other worker is signalled while
\* a worker signalled before has not been replaced: when another worker is
\* signalled, the earlier one has left the bootstrapped map and a worker
\* bootstrapped after that signal has taken its place.
C24_SignalsOnlyWhenReady ==
    \A j \in 1..Len(killLog) :
        LET e == killLog[j]
        IN  /\ Cardinality(DOMAIN e.boot) >= WORKERS
            /\ \A i \in 1..(j - 1) :
                   killLog[i].pid # e.pid =>
                       /\ killLog[i].pid \notin DOMAIN e.boot
                       /\ \E r \in DOMAIN e.boot :
                              e.boot[r] >= killLog[i].time

(* ------------------------------- the hub ------------------------------ *)

\* C13: Hub.wait(watcher) arms the watcher and suspends the calling task
\* until the watcher fires; on every way out of wait (the watcher fired, an
\* exception thrown into the task, a kill) the watcher is stopped before
\* wait returns or the exception propagates.
C13_WaitStopsWatcher ==
    /\ [](\A t \in Tasks :
            /\ task[t].at = "wait" =>
                   task[t].g = "suspended" /\ task[t].watcher = "armed"
            /\ task[t].at # "wait" => task[t].watcher # "armed")
    /\ [][\A t \in Tasks :
            (task[t].at = "wait" /\ task'[t].at # "wait") =>
                /\ task'[t].watcher = "stopped"
                /\ task'[t].exit \in {"returned", "GreenletExit"}]_vars

C13_Witness ==
    \E t, u \in Tasks :
        /\ task[t].exit = "returned" /\ task[t].watcher = "stopped"
        /\ task[u].exit = "GreenletExit" /\ task[u].killedAt = "wait"
        /\ task[u].watcher = "stopped"

\* C14: the hub Waiter is a single slot consumed on read: once get() has
\* returned the value that switch(v) stored, the waiter is empty again
\* (ready() is false), and no later get() returns the same value.
C14_ConsumedOnRead ==
    /\ got >= 1 => hw.exc = "_NONE"
    /\ got <= 1

\* C15: Waiter.get() on an empty waiter that no task waits on, called in
\* the hub's own greenlet, raises RuntimeError instead of suspending and
\* leaves the waiter as it was, with no greenlet registered.
C15_HubGetRaises ==
    /\ [](hw.greenlet # HubGreenlet)
    /\ [][(hubGets' > hubGets /\ hw.exc = "_NONE" /\ hw.greenlet = 0) =>
            /\ cbResult' = "RuntimeError"
            /\ hw' = hw
            /\ UNCHANGED <<task, loopState>>]_vars

C15_Witness ==
    /\ cbResult = "RuntimeError"
    /\ hw.greenlet = 0
    /\ loopState = "running"

\* C16: Hub.stop() returns only after the loop was broken and Hub.run()
\* has finished: the loop has exited and _shutdown_complete is set; it
\* never returns while the loop is running.
C16_StopReturnsAfterExit ==
    /\ [](stopReturns >= 1 =>
            /\ loopState = "exited"
            /\ _shutdown_complete
            /\ startPc = "returned")
    /\ [][stopReturns' > stopReturns =>
            loopState = "exited" /\ _shutdown_complete]_vars

C16_Witness ==
    /\ stopReturns = 1
    /\ loopRuns = 1
    /\ \E t \in Tasks : task[t].exit = "returned"

\* A step of a call of Hub.stop() made after an earlier call returned.
LaterStopStep == stopReturns >= 1 /\ stopPc' # stopPc

\* C17 (as claimed): a call of Hub.stop() after the first has returned
\* returns without blocking and changes nothing of the hub's state.
C17_SecondStopNoOp ==
    /\ []((stopReturns >= 1 /\ stopPc = "waiting") => ENABLED HubStopReturns)
    /\ [][LaterStopStep =>
            UNCHANGED <<lifeVars, taskVars>>]_vars

\* C17 (amended): a call of Hub.stop() after the first has returned
\* returns without blocking; the loop stays exited, _shutdown_complete
\* stays set and tasks and waiters are untouched; the stop wake-up is
\* posted again, and stays unserviced.
C17_SecondStopHarmless ==
    /\ []((stopReturns >= 1 /\ stopPc = "waiting") => ENABLED HubStopReturns)
    /\ [][LaterStopStep =>
            /\ loopState = "exited"
            /\ UNCHANGED <<loopState, loopRuns, _shutdown_complete, startPc,
                           startCalls, taskVars>>
            /\ stopPc' = "waiting" => async_stop_sent']_vars

C17_Witness ==
    /\ stopReturns >= 2
    /\ stopPc = "idle"
    /\ async_stop_sent
    /\ loopState = "exited"

\* C18: Hub.start() returns to its caller while the loop it launched is
\* running (it does not block for the lifetime of the loop), and a second
\* call runs no second loop.
C18_StartReturnsAtOnce ==
    /\ [](loopRuns <= 1)
    /\ [][(startPc = "running" /\ startPc' # "running") =>
            loopState' = "running"]_vars

\* C19: when the closure of a task raised an exception, the loop keeps
\* running: it has not stopped because of it.
C19_LoopSurvivesTaskError ==
    \A t \in Tasks : task[t].exit = "raised" => loopState # "failed"

\* C20: the callback that kill() posted for a task that was not dead makes
\* a suspended task raise the cancellation exception at its suspension
\* point, and the task never resumes normally after it; kill() on a dead
\* task does nothing; a task that the kill reached before its first run
\* never executes its closure.
C20_KillCancels ==
    /\ [](\A t \in Tasks :
            /\ task[t].killedAt # "none" =>
                   task[t].g = "dead" /\ task[t].exit = "GreenletExit"
            /\ task[t].killedAt = "unstarted" => ~task[t].ran)
    /\ [][\A t \in Tasks :
            /\ (task'[t].killSent < task[t].killSent
                    /\ task[t].g = "suspended") =>
                   /\ task'[t].exit = "GreenletExit"
                   /\ task'[t].killedAt = task[t].at
            /\ (task'[t].kills > task[t].kills /\ task[t].g = "dead") =>
                   /\ task' = [task EXCEPT ![t].kills = @ + 1]
                   /\ UNCHANGED <<lifeVars, hw>>]_vars

C20_Witness ==
    \E t, u \in Tasks :
        /\ task[t].killedAt = "wait"
        /\ task[u].killedAt = "unstarted"
        /\ task[u].startw = "idle"

\* C22: once BaseWatcher.stop() has returned, the loop calls on_ready of that
\* watcher no more, so the callback registered with start() is not invoked
\* again, whatever events come and whatever was pending at the stop.
C22_StoppedFiresNothing ==
    [][\A w \in Watchers :
          bw[w].stops >= 1 =>
              /\ bw'[w].ready = bw[w].ready
              /\ bw'[w].fired = bw[w].fired
              /\ ~bw'[w].pending]_vars

C22_Witness ==
    \E w \in Watchers :
        /\ bw[w].stops = 1
        /\ bw[w].fired >= 1
        /\ bw[w].events > bw[w].fired
        /\ bw[w].starts = MaxWStarts
        /\ bw[w].callback = 1

(* ------------------------------ the worker ----------------------------- *)

\* The calls on the worker's socket alternate, a recv first, and every send
\* answers the request of the recv before it.
Alternates ==
    \A i \in 1..Len(wkLog) :
        /\ wkLog[i].ev = IF i % 2 = 1 THEN "recv" ELSE "send"
        /\ i % 2 = 0 => wkLog[i].req = wkLog[i - 1].req

\* C21 (as claimed): the worker sends exactly one reply for every request
\* it receives, in strict receive/reply alternation: the processor's
\* output when processing succeeds, an empty reply when the processor
\* raises any exception; and the loop then goes on to the next request.
C21_OneReplyPerRequest ==
    /\ Alternates
    /\ \A i \in 1..Len(wkLog) :
           i % 2 = 0 =>
               wkLog[i].body = IF wkLog[i - 1].body = "ok"
                               THEN "output" ELSE "empty"
    /\ wkPc # "process" => Len(wkLog) % 2 = 0 /\ wkPc = "recv"

\* C21 (amended): the same for a processor that returns or raises an
\* exception derived from Exception.  When the processor raises an
\* exception that is not (SystemExit, KeyboardInterrupt, GeneratorExit), no
\* reply is sent for that request, the loop ends and the socket is closed;
\* the loop ends in no other way.
C21_OneReplyUnlessExit ==
    /\ Alternates
    /\ \A i \in 1..Len(wkLog) :
           i % 2 = 0 =>
               /\ wkLog[i - 1].body \in {"ok", "Exception"}
               /\ wkLog[i].body = IF wkLog[i - 1].body = "ok"
                                  THEN "output" ELSE "empty"
    /\ wkPc = "recv" => Len(wkLog) % 2 = 0
    /\ wkPc = "closed" =>
           /\ Len(wkLog) % 2 = 1
           /\ wkLog[Len(wkLog)].body = "exit"

C21_Witness ==
    /\ wkPc = "closed"
    /\ \E i \in 1..Len(wkLog) : wkLog[i].ev = "send" /\ wkLog[i].body = "output"
    /\ \E i \in 1..Len(wkLog) : wkLog[i].ev = "send" /\ wkLog[i].body = "empty"

====
